---- MODULE Spec2Model ----
(***************************************************************************)
(* Signal bot (src/signal_bot.py): the signal store with its JSON          *)
(* document, the /addsignal and /delete command handlers, and the price    *)
(* monitoring loop, as one state machine.                                  *)
(*                                                                         *)
(* The program runs on one asyncio event loop: the code between two awaits *)
(* runs without interleaving, so every action below is one such segment    *)
(* (from one await to the next).  The monitor task, and any number of      *)
(* command handlers (concurrent_updates(True)), interleave at the awaits.  *)
(*                                                                         *)
(* Prices are decimals, modelled as integer ticks.  Optional[x] is <<>>    *)
(* for None and <<x>> for a value.  Python indices are kept 0-based.       *)
(***************************************************************************)
EXTENDS Integers, Sequences, FiniteSets, Bags, TLC

\* ---------------------------------------------------------------- bounds
\* Spec: one signal of any shape.  Ids 1..MaxId are handed out; a request
\* names at most MaxTargets targets; the price levels it names are
\* 1..MaxPrice and the prices observed are 0..MaxPrice+1.
MaxId == 1
MaxTargets == 2
MaxPrice == 2
\* SpecCycle: several signals in one cycle, of the simplest shapes.
CycleIds == 2
CycleTargets == 1
CyclePrice == 1
\* SpecStore: the store and the commands alone, more ids.
StoreIds == 4
\* Message ids the channel hands out are 1..MaxMessageId.
MaxMessageId == 1
\* Writes of the file that fail in one behaviour.
MaxFaults == 1

VARIABLES
    heap,       \* the Signal objects of this process, by id (object identity)
    _signals,   \* SignalStore._signals: the ids whose object the dict holds
    _next_id,   \* SignalStore._next_id
    disk,       \* the file at SIGNALS_DB_PATH
    up,         \* the process is running (module-level STORE was built)
    pc,         \* monitor_prices: the await it is suspended at
    snap,       \* monitor_prices: the list STORE.all() returned this cycle
    pos,        \* monitor_prices: position in snap of the signal s (1-based)
    price,      \* monitor_prices: the price fetched for s
    idx,        \* monitor_prices: the target index being notified
    err,        \* monitor_prices: the exception the last cycle logged, if any
    posting,    \* addsignal_cmd handlers suspended in post_signal_to_channel
    reply,      \* the reply_text the last step made, "" when it made none
    sent,       \* the channel: bag of the messages notify_update delivered
    deleted,    \* ids for which STORE.delete returned True
    issued,     \* the ids STORE.add has returned, in the order of the calls
    fetched,    \* ids whose price was fetched in the current cycle
    faults      \* writes of the file that have failed so far

vars == <<heap, _signals, _next_id, disk, up, pc, snap, pos, price, idx, err,
          posting, reply, sent, deleted, issued, fetched, faults>>

\* ------------------------------------------------------------ data model
None == <<>>
Some(x) == <<x>>

Levels(n) == 1..n
Prices(n) == 0..(n + 1)
MessageIds == 1..MaxMessageId

\* A token of the command text: a decimal literal, text float() rejects, or
\* the empty string.
Num(v) == [kind |-> "num", val |-> v]
Junk == [kind |-> "junk", val |-> 0]
Empty == [kind |-> "empty", val |-> 0]
Tokens(n) == {Num(v) : v \in Levels(n)} \cup {Junk, Empty}

SeqsUpTo(S, n) == UNION {[1..k -> S] : k \in 0..n}

\* The key=value arguments of /addsignal that the handler reads, with at
\* most n targets over the tokens T.
RequestsOver(T, n) ==
    [side : {"LONG", "SHORT", "BUY"},
     targets : SeqsUpTo(T, n),
     stop : {None} \cup {Some(t) : t \in T}]

Requests == RequestsOver(Tokens(MaxPrice), MaxTargets)

\* dataclass Signal as addsignal_cmd builds it (lines 251-260): the request
\* gives side, targets and stop; symbol, entry and note are left at what the
\* handler defaults them to, the other fields at the dataclass defaults.
Signal(id, side, targets, stop) ==
    [id |-> id, chat_id |-> "CHANNEL_ID", message_id |-> None,
     symbol |-> "EUR/USD", side |-> side, entry |-> 0, targets |-> targets,
     stop |-> stop, note |-> "", created_at |-> "import time", active |-> TRUE,
     hit_targets |-> <<>>, provider |-> "twelvedata"]

InSeq(x, s) == \E i \in 1..Len(s) : s[i] = x

\* ------------------------------------------------------------------ JSON
\* json.dump writes the int keys of a dict as decimal strings; load turns
\* them back with int(k).  A string is the sequence of its digits.
RECURSIVE str(_)
str(n) == IF n < 10 THEN <<n>> ELSE str(n \div 10) \o <<n % 10>>

RECURSIVE int(_)
int(k) == IF Len(k) = 1 THEN k[1]
          ELSE 10 * int(SubSeq(k, 1, Len(k) - 1)) + k[Len(k)]

to_dict(s) ==
    [id |-> s.id, chat_id |-> s.chat_id, message_id |-> s.message_id,
     symbol |-> s.symbol, side |-> s.side, entry |-> s.entry,
     targets |-> s.targets, stop |-> s.stop, note |-> s.note,
     created_at |-> s.created_at, active |-> s.active,
     hit_targets |-> s.hit_targets, provider |-> s.provider]

\* from_dict that leaves hit_targets at the dataclass default.
from_dict_DefaultHits(d) ==
    [id |-> d.id, chat_id |-> d.chat_id, message_id |-> d.message_id,
     symbol |-> d.symbol, side |-> d.side, entry |-> d.entry,
     targets |-> d.targets, stop |-> d.stop, note |-> d.note,
     created_at |-> d.created_at, active |-> d.active,
     hit_targets |-> <<>>, provider |-> d.provider]

from_dict(d) ==
    [id |-> d.id, chat_id |-> d.chat_id, message_id |-> d.message_id,
     symbol |-> d.symbol, side |-> d.side, entry |-> d.entry,
     targets |-> d.targets, stop |-> d.stop, note |-> d.note,
     created_at |-> d.created_at, active |-> d.active,
     hit_targets |-> d.hit_targets, provider |-> d.provider]

Absent == [kind |-> "absent"]
Torn == [kind |-> "torn"]

\* ----------------------------------------------------------- SignalStore
\* A store value: the objects, the dict's keys, the counter and the file.
Store(h, k, n, d) == [heap |-> h, keys |-> k, next_id |-> n, disk |-> d]

STORE == Store(heap, _signals, _next_id, disk)

\* What open(path, "w") and json.dump can do: write the document; raise
\* before the file is touched; raise after the file was truncated.
SaveOutcomes == {"ok", "oserror", "torn"}

Document(st) ==
    [kind |-> "json",
     next_id |-> st.next_id,
     signals |-> [k \in {str(sid) : sid \in st.keys} |-> to_dict(st.heap[int(k)])]]

save(st, o) ==
    [st EXCEPT !.disk = IF o = "ok" THEN Document(st)
                        ELSE IF o = "torn" THEN Torn
                        ELSE @]

\* load() into a fresh SignalStore; a torn document makes json.load raise.
Loadable(d) == d.kind # "torn"

\* load that does not read next_id back (line 91 left out).
load_FreshCounter(d) ==
    IF d.kind = "absent" THEN Store(<<>>, {}, 1, d)
    ELSE LET ks == {int(k) : k \in DOMAIN d.signals}
         IN Store([sid \in ks |-> from_dict(d.signals[str(sid)])], ks, 1, d)

load(d) ==
    IF d.kind = "absent" THEN Store(<<>>, {}, 1, d)
    ELSE LET ks == {int(k) : k \in DOMAIN d.signals}
         IN Store([sid \in ks |-> from_dict(d.signals[str(sid)])],
                  ks, d.next_id, d)

Put(h, s) == [i \in DOMAIN h \cup {s.id} |-> IF i = s.id THEN s ELSE h[i]]

\* add that writes the file before it advances the counter.
add_SaveFirst(st, s, o) ==
    LET s1 == [s EXCEPT !.id = st.next_id]
        st2 == save([st EXCEPT !.heap = Put(@, s1), !.keys = @ \cup {s1.id}], o)
    IN [st2 EXCEPT !.next_id = @ + 1]

add(st, s, o) ==
    LET s1 == [s EXCEPT !.id = st.next_id]
    IN save([st EXCEPT !.heap = Put(@, s1),
                       !.keys = @ \cup {s1.id},
                       !.next_id = @ + 1], o)

RECURSIVE Ascending(_)
Ascending(S) ==
    IF S = {} THEN <<>>
    ELSE LET m == CHOOSE x \in S : \A y \in S : x <= y
         IN <<m>> \o Ascending(S \ {m})

\* all that sorts by id alone.
all_ById(st) == Ascending(st.keys)

\* sorted(values, key=(not active, id))
all(st) ==
    Ascending({i \in st.keys : st.heap[i].active})
        \o Ascending({i \in st.keys : ~st.heap[i].active})

\* delete that writes the file whether or not it found the id.
delete_AlwaysSave(st, sid, o) == save([st EXCEPT !.keys = @ \ {sid}], o)

delete(st, sid, o) ==
    IF sid \in st.keys THEN save([st EXCEPT !.keys = @ \ {sid}], o) ELSE st

update(st, s, o) ==
    save([st EXCEPT !.heap = Put(@, s), !.keys = @ \cup {s.id}], o)

\* ------------------------------------------------------------------ Init
Init ==
    /\ heap = <<>>
    /\ _signals = {}
    /\ _next_id = 1
    /\ disk = Absent
    /\ up = TRUE
    /\ pc = "start"
    /\ snap = <<>>
    /\ pos = 0
    /\ price = 0
    /\ idx = 0
    /\ err = ""
    /\ posting = {}
    /\ reply = ""
    /\ sent = EmptyBag
    /\ deleted = {}
    /\ issued = <<>>
    /\ fetched = {}
    /\ faults = 0

SetStore(st) ==
    /\ heap' = st.heap
    /\ _signals' = st.keys
    /\ _next_id' = st.next_id
    /\ disk' = st.disk

monitorVars == <<pc, snap, pos, price, idx, err, fetched>>

\* A write that fails is one of the MaxFaults of the behaviour.
Outcome(o) ==
    /\ o \in SaveOutcomes
    /\ o # "ok" => faults < MaxFaults
    /\ faults' = IF o = "ok" THEN faults ELSE faults + 1

\* ------------------------------------------------------------- /addsignal
\* float(x) returns for a decimal literal and raises ValueError otherwise.
IsFloat(t) == t.kind = "num"

\* The try block of addsignal_cmd raises (lines 235-244).
ParseFails(kv) ==
    \/ \E i \in 1..Len(kv.targets) :
          kv.targets[i].kind # "empty" /\ ~IsFloat(kv.targets[i])
    \/ kv.stop # None /\ ~IsFloat(kv.stop[1])
    \/ kv.side \notin {"LONG", "SHORT"}

\* [float(x) for x in kv.get("targets", "").split(",") if x]
ParsedTargets(kv) ==
    LET keep == SelectSeq(kv.targets, LAMBDA t : t.kind # "empty")
    IN [i \in 1..Len(keep) |-> keep[i].val]

ParsedStop(kv) == IF kv.stop = None THEN None ELSE Some(kv.stop[1].val)

\* addsignal_cmd, from the command to its await of post_signal_to_channel.
addsignal_cmd(kv) ==
    /\ up
    /\ IF ParseFails(kv)
       THEN /\ reply' = "Format error"
            /\ UNCHANGED <<heap, _signals, _next_id, disk, posting, issued, faults>>
       ELSE \E o \in SaveOutcomes :
              /\ Outcome(o)
              /\ SetStore(add(STORE, Signal(0, kv.side, ParsedTargets(kv),
                                            ParsedStop(kv)), o))
              /\ IF o = "ok"
                 THEN posting' = posting \cup {_next_id} /\ issued' = Append(issued, _next_id)
                 ELSE UNCHANGED <<posting, issued>>
              /\ reply' = ""
    /\ UNCHANGED <<up, sent, deleted>>
    /\ UNCHANGED monitorVars

\* post_signal_to_channel returned message id m: the rest of addsignal_cmd.
addsignal_posted(sid, m) ==
    /\ up
    /\ sid \in posting
    /\ posting' = posting \ {sid}
    /\ \E o \in SaveOutcomes :
         /\ Outcome(o)
         /\ SetStore(update(STORE, [heap[sid] EXCEPT !.message_id = Some(m)], o))
         /\ reply' = IF o = "ok" THEN "Signal created" ELSE ""
    /\ UNCHANGED <<up, sent, deleted, issued>>
    /\ UNCHANGED monitorVars

\* send_message raised inside post_signal_to_channel: the handler ends.
addsignal_post_failed(sid) ==
    /\ up
    /\ sid \in posting
    /\ posting' = posting \ {sid}
    /\ reply' = ""
    /\ UNCHANGED <<heap, _signals, _next_id, disk, up, sent, deleted, issued, faults>>
    /\ UNCHANGED monitorVars

\* ---------------------------------------------------------------- /delete
delete_cmd(sid) ==
    /\ up
    /\ IF sid \in _signals
       THEN \E o \in SaveOutcomes :
              /\ Outcome(o)
              /\ SetStore(delete(STORE, sid, o))
              /\ IF o = "ok"
                 THEN reply' = "Deleted." /\ deleted' = deleted \cup {sid}
                 ELSE reply' = "" /\ UNCHANGED deleted
       ELSE /\ reply' = "Not found."
            /\ SetStore(delete(STORE, sid, "ok"))
            /\ UNCHANGED <<deleted, faults>>
    /\ UNCHANGED <<up, posting, sent, issued>>
    /\ UNCHANGED monitorVars

\* -------------------------------------------------------- monitor_prices
\* The monitor after a synchronous stretch of its loop: the store, the await
\* it stopped at, and its locals.
Mon(st, p, k, pr, i, e) ==
    [st |-> st, pc |-> p, pos |-> k, price |-> pr, idx |-> i, err |-> e]

\* An exception that ends the task: nothing resumes at "exit".
Raised_Exit(st, k, e) == Mon(st, "exit", k, 0, 0, e)

\* An exception reached line 350 while the signal at position k was handled.
Raised(st, k, e) == Mon(st, "sleep", k, 0, 0, e)

\* for s in ...: if not s.active: continue -- the next signal that is
\* fetched, from position k of the list; the sleep of line 349 when none.
for_next(st, sn, k) ==
    LET rest == {j \in k..Len(sn) : st.heap[sn[j]].active}
    IN IF rest = {} THEN Mon(st, "sleep", 0, 0, 0, "")
       ELSE Mon(st, "fetch", CHOOSE j \in rest : \A j2 \in rest : j <= j2, 0, 0, "")

\* The comparisons of lines 319 and 321 made strict.
Hit_Strict(s, p, i) ==
    \/ s.side = "LONG" /\ p > s.targets[i + 1]
    \/ s.side = "SHORT" /\ p < s.targets[i + 1]

\* Lines 318-322.
Hit(s, p, i) ==
    \/ s.side = "LONG" /\ p >= s.targets[i + 1]
    \/ s.side = "SHORT" /\ p <= s.targets[i + 1]

\* The loop without the membership check of line 316.
AlreadyHit_Unchecked(s, i) == FALSE

\* Line 316.
AlreadyHit(s, i) == InSeq(i, s.hit_targets)

\* Lines 315-323: the first index from i on that is newly hit, -1 when none.
RECURSIVE FirstHit(_, _, _)
FirstHit(s, p, i) ==
    IF i >= Len(s.targets) THEN -1
    ELSE IF ~AlreadyHit(s, i) /\ Hit(s, p, i) THEN i
    ELSE FirstHit(s, p, i + 1)

\* Lines 334-339.
StopHit(s, p) ==
    /\ s.stop # None
    /\ s.active
    /\ \/ s.side = "LONG" /\ p <= s.stop[1]
       \/ s.side = "SHORT" /\ p >= s.stop[1]

\* Lines 333-347, up to the await of notify_update.
stop_loss(st, sn, k, p, o) ==
    LET s == st.heap[sn[k]]
    IN IF StopHit(s, p)
       THEN LET st2 == update(st, [s EXCEPT !.active = FALSE], o)
            IN IF o = "ok" THEN Mon(st2, "snotify1", k, p, 0, "")
               ELSE Raised(st2, k, "save")
       ELSE for_next(st, sn, k + 1)

\* Lines 315-331 from target index i on, up to the await of notify_update.
targets_from(st, sn, k, p, i, o) ==
    LET s == st.heap[sn[k]]
        h == FirstHit(s, p, i)
    IN IF h >= 0
       THEN LET st2 == update(st, [s EXCEPT !.hit_targets = Append(@, h)], o)
            IN IF o = "ok" THEN Mon(st2, "tnotify1", k, p, h, "")
               ELSE Raised(st2, k, "save")
       ELSE stop_loss(st, sn, k, p, o)

SetMon(r) ==
    /\ SetStore(r.st)
    /\ pc' = r.pc
    /\ pos' = r.pos
    /\ price' = r.price
    /\ idx' = r.idx
    /\ err' = r.err

\* A stretch, given for each outcome of the write it may make: one that
\* writes the file has the outcome of that write.
Stretch(r) ==
    IF \A o \in SaveOutcomes : r[o] = r["ok"]
    THEN SetMon(r["ok"]) /\ UNCHANGED faults
    ELSE \E o \in SaveOutcomes : Outcome(o) /\ SetMon(r[o])

cmdVars == <<posting, deleted, issued>>

\* while True: for s in STORE.all(): ... up to the first await.
monitor_cycle ==
    /\ up
    /\ pc \in {"start", "sleep"}
    /\ snap' = all(STORE)
    /\ fetched' = {}
    /\ SetMon(for_next(STORE, all(STORE), 1))
    /\ reply' = ""
    /\ UNCHANGED <<up, sent, faults>>
    /\ UNCHANGED cmdVars

\* td_get_price returned p (line 312).
td_get_price(p) ==
    /\ up
    /\ pc = "fetch"
    /\ fetched' = fetched \cup {snap[pos]}
    /\ Stretch([o \in SaveOutcomes |-> targets_from(STORE, snap, pos, p, 0, o)])
    /\ reply' = ""
    /\ UNCHANGED <<up, snap, sent>>
    /\ UNCHANGED cmdVars

\* A monitor that closes the signal whose price it cannot fetch.
td_get_price_raised_Close ==
    /\ up
    /\ pc = "fetch"
    /\ SetMon(Raised(update(STORE, [heap[snap[pos]] EXCEPT !.active = FALSE], "ok"),
                      pos, "fetch"))
    /\ reply' = ""
    /\ UNCHANGED <<up, snap, sent, fetched, faults>>
    /\ UNCHANGED cmdVars

\* td_get_price raised: the except clause of line 350.
td_get_price_raised ==
    /\ up
    /\ pc = "fetch"
    /\ SetMon(Raised(STORE, pos, "fetch"))
    /\ reply' = ""
    /\ UNCHANGED <<up, snap, sent, fetched, faults>>
    /\ UNCHANGED cmdVars

\* A message of the channel.
Message(kind, sid, i, to) ==
    [kind |-> kind, sid |-> sid, idx |-> i, reply_to |-> to]

Deliver(m) == sent' = sent (+) SetToBag({m})

NotifyKind == IF pc \in {"tnotify1", "tnotify2"} THEN "target" ELSE "stop"

\* A loop body that goes to the next signal once a target was notified.
after_notify_NextSignal(o) == for_next(STORE, snap, pos + 1)

\* After notify_update returned: the rest of the loop body.
after_notify(o) ==
    IF NotifyKind = "target"
    THEN targets_from(STORE, snap, pos, price, idx + 1, o)
    ELSE for_next(STORE, snap, pos + 1)

\* if s.message_id: an id that is neither None nor 0.
Truthy(x) == x # None /\ x[1] # 0

\* notify_update, line 179: the message was sent.
notify_update_sent ==
    /\ up
    /\ pc \in {"tnotify1", "snotify1"}
    /\ Deliver(Message(NotifyKind, snap[pos], idx, None))
    /\ IF Truthy(heap[snap[pos]].message_id)
       THEN /\ pc' = (IF pc = "tnotify1" THEN "tnotify2" ELSE "snotify2")
            /\ UNCHANGED <<heap, _signals, _next_id, disk, pos, price, idx, err, faults>>
       ELSE Stretch([o \in SaveOutcomes |-> after_notify(o)])
    /\ reply' = ""
    /\ UNCHANGED <<up, snap, fetched>>
    /\ UNCHANGED cmdVars

\* notify_update, line 179: send_message raised, caught at line 350.
notify_update_raised ==
    /\ up
    /\ pc \in {"tnotify1", "snotify1"}
    /\ SetMon(Raised(STORE, pos, "send"))
    /\ reply' = ""
    /\ UNCHANGED <<up, snap, sent, fetched, faults>>
    /\ UNCHANGED cmdVars

\* notify_update, lines 180-184: the reply to the card, sent or not.
notify_update_reply(ok) ==
    /\ up
    /\ pc \in {"tnotify2", "snotify2"}
    /\ IF ok
       THEN Deliver(Message(NotifyKind, snap[pos], idx, heap[snap[pos]].message_id))
       ELSE UNCHANGED sent
    /\ Stretch([o \in SaveOutcomes |-> after_notify(o)])
    /\ reply' = ""
    /\ UNCHANGED <<up, snap, fetched>>
    /\ UNCHANGED cmdVars

\* --------------------------------------------------------------- restart
\* The process is killed and started again: STORE is rebuilt from the file
\* (line 127); the monitor task and the handlers in flight are gone.  A
\* document json.load rejects ends the start.
Restart ==
    /\ up
    /\ IF Loadable(disk)
       THEN SetStore(load(disk)) /\ up' = TRUE
       ELSE /\ heap' = <<>> /\ _signals' = {} /\ _next_id' = 1
            /\ up' = FALSE /\ UNCHANGED disk
    /\ pc' = "start" /\ snap' = <<>> /\ pos' = 0 /\ price' = 0 /\ idx' = 0
    /\ err' = "" /\ fetched' = {}
    /\ posting' = {}
    /\ reply' = ""
    /\ UNCHANGED <<sent, deleted, issued, faults>>

\* ------------------------------------------------------- specifications
Commands(reqs, maxId) ==
    \/ \E kv \in reqs : _next_id <= maxId /\ addsignal_cmd(kv)
    \/ \E sid \in 1..maxId, m \in MessageIds : addsignal_posted(sid, m)
    \/ \E sid \in 1..maxId : addsignal_post_failed(sid)
    \/ \E sid \in 1..(maxId + 1) : delete_cmd(sid)

Monitor(prices) ==
    \/ monitor_cycle
    \/ \E p \in prices : td_get_price(p)
    \/ td_get_price_raised
    \/ notify_update_sent
    \/ notify_update_raised
    \/ \E ok \in BOOLEAN : notify_update_reply(ok)

\* One signal of any shape, every request the handler can get, every
\* failure of the file, the channel and the price source, and restarts.
Next == Commands(Requests, MaxId) \/ Monitor(Prices(MaxPrice)) \/ Restart

Spec == Init /\ [][Next]_vars

\* Several signals in one cycle: the accepted LONG requests of the simplest
\* shapes, no failing write.
CycleRequests ==
    {kv \in RequestsOver(Tokens(CyclePrice), CycleTargets) :
        /\ ~ParseFails(kv)
        /\ kv.side = "LONG"
        /\ \A i \in 1..Len(kv.targets) : kv.targets[i].kind = "num"}

CycleNext ==
    /\ Commands(CycleRequests, CycleIds) \/ Monitor(Prices(CyclePrice)) \/ Restart
    /\ faults' = faults

SpecCycle == Init /\ [][CycleNext]_vars

\* The store under the commands and restarts alone, one request shape.
StoreRequests ==
    {[side |-> "LONG", targets |-> <<Num(1)>>, stop |-> None]}

StoreNext == Commands(StoreRequests, StoreIds) \/ Restart

SpecStore == Init /\ [][StoreNext]_vars

\* The running process with one signal, with or without a stop, under fair
\* scheduling of the monitor task: every command, every failure of the file,
\* the channel and the price source, no restart.
LoopRequests ==
    {[side |-> "LONG", targets |-> <<Num(1)>>, stop |-> s] :
        s \in {None, Some(Num(1))}}

LoopNext == Commands(LoopRequests, MaxId) \/ Monitor(Prices(CyclePrice))

SpecLoop ==
    Init /\ [][LoopNext]_vars /\ WF_vars(Monitor(Prices(CyclePrice)))

\* The running process under fair scheduling: the commands and the monitor
\* without restarts, two signals of one shape.  The event loop resumes the
\* monitor task whenever its await is over: the sleep ends, the request to
\* the price source returns or times out, send_message returns or raises.
\* The price source answers for every signal but signal 1 again and again.
LiveNext == Commands(StoreRequests, CycleIds) \/ Monitor(Prices(CyclePrice))

LiveFair ==
    /\ WF_vars(Monitor(Prices(CyclePrice)))
    /\ \A sid \in 2..CycleIds :
          SF_vars(\E p \in Prices(CyclePrice) :
                     pc = "fetch" /\ snap[pos] = sid /\ td_get_price(p))

SpecLive == Init /\ [][LiveNext]_vars /\ LiveFair

\* ================================================================ claims
NoDup(s) == \A a, b \in 1..Len(s) : s[a] = s[b] => a = b

\* The messages of kind `kind` in channel `ch` about target i of signal sid,
\* the plain message and the reply to the card alike.
Notifications(ch, kind, sid, i) ==
    LET ms == {m \in BagToSet(ch) : m.kind = kind /\ m.sid = sid /\ m.idx = i}
    IN BagCardinality([m \in ms |-> ch[m]])

OnDisk(sid) == disk.kind = "json" /\ str(sid) \in DOMAIN disk.signals

\* C1: for every signal and target index, the target-hit notification is
\* sent exactly once: never more than one message on the channel, counting
\* every message notify_update sends, and, unless the process is killed,
\* never none once the monitor has recorded the hit and gone on.
C1_TargetNotifiedExactlyOnce ==
    [][/\ \A sid \in DOMAIN heap' : \A i \in 0..(Len(heap'[sid].targets) - 1) :
            Notifications(sent', "target", sid, i) <= 1
       /\ (pc = "tnotify1" /\ pc' # "start" /\ <<pc', pos', idx'>> # <<pc, pos, idx>>)
            => Notifications(sent', "target", snap[pos], idx) >= 1]_vars

\* C2: in every reachable state the hit_targets of every signal, in memory
\* and in the persisted document, holds each target index at most once.
C2_HitTargetsUnique ==
    /\ \A sid \in DOMAIN heap : NoDup(heap[sid].hit_targets)
    /\ disk.kind = "json" =>
         \A k \in DOMAIN disk.signals : NoDup(disk.signals[k].hit_targets)

\* C2 witness: index 1 was hit in one evaluation and index 0 in a later one,
\* which met index 1 already recorded, with a /delete in between.
C2_Witness ==
    \E sid \in DOMAIN heap :
        /\ heap[sid].hit_targets = <<1, 0>>
        /\ sid \in deleted

\* C3: a cycle that a price-fetch failure ended has fetched the price of
\* every other active signal of its snapshot.
C3_FetchFailureKeepsCycle ==
    (pc = "sleep" /\ err = "fetch") =>
        \A j \in 1..Len(snap) :
            (j # pos /\ heap[snap[j]].active) => snap[j] \in fetched

\* C4: once /delete has answered Deleted for an id, the id is neither in the
\* store nor in the persisted document.
C4_DeletedStaysDeleted ==
    \A sid \in deleted : sid \notin _signals /\ ~OnDisk(sid)

\* C5: the ids add has returned are strictly increasing in the order of the
\* calls, across deletes, updates and restarts.
C5_IdsIncrease ==
    \A a, b \in 1..Len(issued) : a < b => issued[a] < issued[b]

\* C5 witness: 1, 2, 3 were handed out, 2 was deleted, the next add got 4.
C5_Witness ==
    /\ issued = <<1, 2, 3, 4>>
    /\ deleted = {2}
    /\ _signals = {1, 3, 4}

\* A step in which add, update or delete returned to its caller.
Acknowledged ==
    \/ Len(issued') > Len(issued)
    \/ reply' \in {"Signal created", "Deleted."}
    \/ pc' \in {"tnotify1", "snotify1"} /\ <<pc', pos', idx'>> # <<pc, pos, idx>>

\* C6: when add, update or delete returns, the file holds the document of
\* the store as it is in memory; and while no write has failed, the file
\* holds it at every await, so that a crash there loses nothing.
C6_PersistedOnReturn ==
    /\ [][Acknowledged =>
            disk' = Document(Store(heap', _signals', _next_id', disk'))]_vars
    /\ [](faults = 0 =>
            \/ disk = Document(STORE)
            \/ disk = Absent /\ _signals = {} /\ _next_id = 1)

\* C6 witness: a write failed, and a later update returned.
C6_Witness ==
    /\ faults = 1
    /\ reply = "Signal created"
    /\ disk = Document(STORE)

\* C7: a restart from the document of the store gives the same ids, an
\* equal record for each id and the same next_id.
C7_SaveLoadRoundTrip ==
    [][(Restart /\ disk = Document(STORE)) =>
          /\ up'
          /\ _signals' = _signals
          /\ _next_id' = _next_id
          /\ \A sid \in _signals : heap'[sid] = heap[sid]]_vars

\* C7 witness: the process was restarted with a signal that has a card, a
\* target hit and its stop hit.
C7_Witness ==
    /\ pc = "start"
    /\ disk = Document(STORE)
    /\ \E sid \in _signals :
          /\ heap[sid].hit_targets # <<>>
          /\ heap[sid].message_id # None
          /\ ~heap[sid].active

\* C8: a stop that is crossed gets one stop-hit message on the channel, and
\* the monitor neither changes nor reports a signal that is not active.
C8_StopNotifiedOnce ==
    [][\A sid \in DOMAIN heap' :
         /\ Notifications(sent', "stop", sid, 0) <= 1
         /\ (sid \in DOMAIN heap /\ ~heap[sid].active /\ pc' # "start") =>
              /\ ~heap'[sid].active
              /\ heap'[sid].hit_targets = heap[sid].hit_targets
              /\ \A i \in 0..(Len(heap[sid].targets) - 1) :
                    Notifications(sent', "target", sid, i)
                        = Notifications(sent, "target", sid, i)
              /\ (pc \in {"snotify1", "snotify2"} /\ snap[pos] = sid)
                    \/ Notifications(sent', "stop", sid, 0)
                        = Notifications(sent, "stop", sid, 0)]_vars

\* The requests AddSignal has to reject: a side other than LONG and SHORT,
\* no target, a target that is no decimal, a stop that is no decimal.
MustReject(kv) ==
    \/ kv.side \notin {"LONG", "SHORT"}
    \/ \A i \in 1..Len(kv.targets) : kv.targets[i].kind = "empty"
    \/ \E i \in 1..Len(kv.targets) : kv.targets[i].kind = "junk"
    \/ kv.stop # None /\ kv.stop[1].kind # "num"

\* C9: a request that has to be rejected is answered with the format error
\* and leaves the store, the counter and the file as they were.
C9_InvalidRejected ==
    [][\A kv \in Requests :
          (MustReject(kv) /\ addsignal_cmd(kv)) =>
              /\ reply' = "Format error"
              /\ UNCHANGED <<heap, _signals, _next_id, disk>>]_vars

\* C10: a price fetch that fails changes no signal, in memory or on file,
\* and sends nothing; the signal was not evaluated earlier in that cycle and
\* the cycle is over.
C10_FetchFailureFrame ==
    [][(pc = "fetch" /\ err' = "fetch") =>
          /\ UNCHANGED <<heap, _signals, _next_id, disk, sent>>
          /\ snap[pos] \notin fetched
          /\ pc' = "sleep"]_vars

\* C10 witness: the fetch failed for a signal with a target already hit.
C10_Witness ==
    /\ pc = "sleep"
    /\ err = "fetch"
    /\ heap[snap[pos]].hit_targets # <<>>

\* C11: a write of the file that fails inside the monitoring cycle is not
\* logged and retried like a fetch failure: the monitor never starts another
\* cycle after it while a stored signal has a hit or a deactivation that
\* the persisted document lacks.
C11_WriteFailureSurfaced ==
    [][(monitor_cycle /\ err = "save") =>
          \A sid \in _signals :
              /\ OnDisk(sid)
              /\ disk.signals[str(sid)].hit_targets = heap[sid].hit_targets
              /\ disk.signals[str(sid)].active = heap[sid].active]_vars

HitSet(s) == {s.hit_targets[j] : j \in 1..Len(s.hit_targets)}

\* The target indices of s that are not hit yet and that price p satisfies.
Crossed(s, p) ==
    {i \in 0..(Len(s.targets) - 1) :
        /\ i \notin HitSet(s)
        /\ \/ s.side = "LONG" /\ p >= s.targets[i + 1]
           \/ s.side = "SHORT" /\ p <= s.targets[i + 1]}

\* A step of the target loop in the evaluation of a signal with price p.
EvalStep(p) ==
    \/ td_get_price(p)
    \/ /\ pc \in {"tnotify1", "tnotify2"}
       /\ p = price
       /\ notify_update_sent \/ \E ok \in BOOLEAN : notify_update_reply(ok)

\* C12: in the evaluation of a signal with price p, every step of the
\* target loop appends to hit_targets the next index that is not hit yet and
\* that p satisfies (>= for LONG, <= for SHORT) and nothing else, indices
\* already hit stay, and when the loop is through no such index is left.
C12_NewHitsExact ==
    [][\A p \in Prices(MaxPrice) :
          EvalStep(p) =>
              LET s == heap[snap[pos]]
                  t == heap'[snap[pos]]
                  from == IF pc = "fetch" THEN 0 ELSE idx + 1
                  due == {i \in Crossed(s, p) : i >= from}
              IN /\ IF due = {} \/ (pc = "tnotify1" /\ pc' = "tnotify2")
                    THEN t.hit_targets = s.hit_targets
                    ELSE t.hit_targets
                           = Append(s.hit_targets,
                                    CHOOSE i \in due : \A j \in due : i <= j)
                 /\ (err' = "" /\ pc' \notin {"tnotify1", "tnotify2"})
                       => Crossed(s, p) = {}]_vars

\* C12 witness: LONG with targets 2 and 1; price 1 hit index 1 only, and a
\* later evaluation with price 2 has now hit index 0 only.
C12_Witness ==
    /\ pc = "tnotify1"
    /\ idx = 0
    /\ price = 2
    /\ heap[snap[pos]].side = "LONG"
    /\ heap[snap[pos]].targets = <<2, 1>>
    /\ heap[snap[pos]].hit_targets = <<1, 0>>

\* C13: /delete of an id that is not in the store answers Not found and
\* leaves the counter, every record and the file as they were.
C13_DeleteAbsentFrame ==
    [][\A sid \in 1..(StoreIds + 1) :
          (sid \notin _signals /\ delete_cmd(sid)) =>
              /\ reply' = "Not found."
              /\ UNCHANGED <<heap, _signals, _next_id, disk, deleted>>]_vars

\* C13 witness: 2 was deleted, and a /delete of an id not in the store was
\* answered.
C13_Witness ==
    /\ reply = "Not found."
    /\ deleted = {2}
    /\ _signals = {1, 3}
    /\ _next_id = 4
    /\ disk = Document(STORE)

\* C14: a signal that is not active is not active after any step.
C14_InactiveStaysInactive ==
    [][\A sid \in DOMAIN heap \cap DOMAIN heap' :
          ~heap[sid].active => ~heap'[sid].active]_vars

\* C16: all() lists every stored signal once, the active ones before the
\* others, and by ascending id among the active and among the others.
C16_AllActiveFirstAscending ==
    LET l == all(STORE)
    IN /\ Len(l) = Cardinality(_signals)
       /\ {l[j] : j \in 1..Len(l)} = _signals
       /\ \A a, b \in 1..Len(l) :
             a < b => \/ heap[l[a]].active /\ ~heap[l[b]].active
                      \/ /\ heap[l[a]].active = heap[l[b]].active
                         /\ l[a] < l[b]

\* C16 witness: signal 1 is stopped and signal 2 is active, so the list has
\* the higher id first; the monitor holds that list.
C16_Witness ==
    /\ all(STORE) = <<2, 1>>
    /\ snap = <<2, 1>>

\* C17: every step leaves the file as it was or holding the complete document
\* of the store.
C17_AtomicSave ==
    [][\/ disk' = disk
       \/ disk' = Document(Store(heap', _signals', _next_id', disk'))]_vars

\* C18: every notification on the channel about a stored signal has its hit
\* in the persisted document: the index in hit_targets for a target hit,
\* active false for a stop hit.
C18_PersistBeforeNotify ==
    \A m \in BagToSet(sent) :
        m.sid \in _signals =>
            /\ OnDisk(m.sid)
            /\ m.kind = "target"
                 => InSeq(m.idx, disk.signals[str(m.sid)].hit_targets)
            /\ m.kind = "stop" => ~disk.signals[str(m.sid)].active

\* Price p satisfies the stop of s.
StopCrossed(s, p) ==
    /\ s.stop # None
    /\ \/ s.side = "LONG" /\ p <= s.stop[1]
       \/ s.side = "SHORT" /\ p >= s.stop[1]

\* C19: when the target loop of an evaluation that hit a target is through
\* and the price satisfies the stop as well, the same step deactivates the
\* signal and goes on to notify the stop; the target hit is recorded and
\* was notified, and the deactivation leaves hit_targets as it was.
C19_StopAfterTargets ==
    [][/\ (/\ pc \in {"tnotify1", "tnotify2"}
           /\ pc' \notin {"tnotify1", "tnotify2", "start"}
           /\ err' = ""
           /\ heap[snap[pos]].active
           /\ StopCrossed(heap[snap[pos]], price))
          => /\ pc' = "snotify1"
             /\ pos' = pos
             /\ ~heap'[snap[pos]].active
             /\ heap'[snap[pos]].hit_targets = heap[snap[pos]].hit_targets
             /\ InSeq(idx, heap'[snap[pos]].hit_targets)
             /\ Notifications(sent', "target", snap[pos], idx) >= 1
       /\ (pc # "snotify1" /\ pc' = "snotify1")
          => /\ ~heap'[snap[pos']].active
             /\ heap'[snap[pos']].hit_targets = heap[snap[pos']].hit_targets]_vars

\* C19 witness: LONG with target 2 and stop 2 at price 2: the target was hit
\* and notified and the stop is being notified.
C19_Witness ==
    /\ pc = "snotify1"
    /\ price = 2
    /\ heap[snap[pos]].side = "LONG"
    /\ heap[snap[pos]].targets = <<2>>
    /\ heap[snap[pos]].stop = Some(2)
    /\ heap[snap[pos]].hit_targets = <<0>>
    /\ ~heap[snap[pos]].active
    /\ Notifications(sent, "target", snap[pos], 0) >= 1

\* C15: the monitoring loop never exits: it is again and again at the top
\* of its loop or in the sleep between two cycles, and after a failure in
\* a cycle (fetch, notification, write) another cycle begins.
C15_LoopNeverExits ==
    /\ []<>(pc \in {"start", "sleep"})
    /\ (err # "") ~> (err = "")

\* C15 witness: a cycle has begun after a cycle that failed between the
\* recording of a hit and its notification.
C15_Witness ==
    /\ pc = "fetch"
    /\ \E sid \in _signals :
          /\ heap[sid].hit_targets # <<>>
          /\ Notifications(sent, "target", sid, 0) = 0

\* C20: every active signal whose own price fetches succeed has its price
\* fetched eventually, also while the fetch of another active signal fails
\* in every cycle.
C20_EveryActiveSignalEvaluated ==
    \A sid \in 2..CycleIds :
        (sid \in _signals /\ heap[sid].active)
            ~> (sid \in fetched \/ sid \notin _signals \/ ~heap[sid].active)
====
